---- MODULE Spec2Model ----
(***************************************************************************)
(* A model of the semantic retrieval subsystem of notebook-lm-clone:       *)
(*   src/src/vector_database/qdrant_vector_db.py   (QdrantVectorDB)        *)
(*   src/src/embeddings/embedding_generator.py     (EmbeddingGenerator)    *)
(*                                                                         *)
(* Spec     : store instances sharing one Qdrant engine.                   *)
(* GenSpec  : the embedding generator, its initialization ladder and its   *)
(*            embedding operations.                                        *)
(*                                                                         *)
(* Python values: None is the empty tuple, an Optional[int] n is <<n>>,    *)
(* a list is a tuple (no method returns either a list or None), a dict     *)
(* payload is a TLA+ record whose DOMAIN is the dict's key set, metadata   *)
(* values are tagged records (none / dict / str).                          *)
(***************************************************************************)
EXTENDS Integers, Sequences, FiniteSets, TLC

VARIABLES
    engine,   \* the Qdrant engine's view of the named collection
    inst,     \* the QdrantVectorDB objects: construction state and fields
    last,     \* the last store operation: arguments, outcome, engine requests
    gen,      \* the EmbeddingGenerator object and its environment
    glast     \* the last generator operation: arguments and outcome

vars == <<engine, inst, last, gen, glast>>

storeVars == <<engine, inst, last>>

genVars == <<gen, glast>>

-----------------------------------------------------------------------------
(* Bounds of the model *)

\* longest batch handed to insert_embeddings
MaxBatch == 2

\* largest limit handed to search
MaxLimit == 2

\* store objects constructed against the same engine and collection name
Instances == {1, 2}

\* embedding_dim values handed to the constructor
Dims == {2, 3}

-----------------------------------------------------------------------------
(* Python values *)

None == <<>>

Some(n) == <<n>>

MetaNone == [t |-> "none"]

MetaDict(d) == [t |-> "dict", d |-> d]

MetaStr(s) == [t |-> "str", s |-> s]

EmptyDict == MetaDict({})

\* Python truthiness of a metadata value: None, {} and "" are falsy
Truthy(m) ==
    CASE m.t = "none" -> FALSE
      [] m.t = "dict" -> m.d /= {}
      [] m.t = "str"  -> m.s /= ""

\* json.loads on the metadata strings of the model: a JSON object gives a
\* mapping, a JSON string literal gives the string it quotes, anything else
\* raises.
json_loads(s) ==
    CASE s = "{\"k\": \"v\"}" -> [ok |-> TRUE, value |-> MetaDict({<<"k", "v">>})]
      [] s = "\"abc\""        -> [ok |-> TRUE, value |-> MetaStr("abc")]
      [] OTHER                -> [ok |-> FALSE, value |-> MetaNone]

\* Faulty variant of LoadsOrEmpty: the parse error is not caught, the value
\* is kept as it is.
LoadsOrEmpty_KeepsRaw(m) == m

\* try: json.loads(value) / except: {}
LoadsOrEmpty(m) ==
    IF m.t = "str" /\ json_loads(m.s).ok THEN json_loads(m.s).value ELSE EmptyDict

\* dict.get(key, default)
Get(d, key, default) == IF key \in DOMAIN d THEN d[key] ELSE default

-----------------------------------------------------------------------------
(* _string_id_to_int: first 8 digest bytes, big-endian, modulo 2^63 - 1.   *)
(* 64-bit quantities are big-endian tuples of 8 bytes.                     *)

\* The string ids of the model. "c1" and "c3" carry the first 8 bytes of
\* their real MD5 digests; "u" and "v" stand for two strings whose digest
\* prefixes are 5 and 5 + (2^63 - 1), which the reduction maps to one key.
\* No chunk of the model has id "c3".
Ids == {"c1", "c3", "u", "v"}

md5_digest8(string_id) ==
    CASE string_id = "c1" -> <<169, 247, 233, 121, 101, 214, 207, 121>>
      [] string_id = "c3" -> <<10, 61, 114, 19, 79, 179, 214, 192>>
      [] string_id = "u"  -> <<0, 0, 0, 0, 0, 0, 0, 5>>
      [] string_id = "v"  -> <<128, 0, 0, 0, 0, 0, 0, 4>>

\* 2^63 - 1 as 8 big-endian bytes
Modulus == <<127, 255, 255, 255, 255, 255, 255, 255>>

\* b + 1 on 8 big-endian bytes (b < 2^64 - 1)
RECURSIVE IncAt(_, _)
IncAt(b, i) ==
    IF i = 0 THEN b
    ELSE IF b[i] < 255 THEN [b EXCEPT ![i] = b[i] + 1]
    ELSE IncAt([b EXCEPT ![i] = 0], i - 1)

\* Faulty variant of ModReduce: the reduction is modulo 2^63 (the top bit is
\* dropped).
ModReduce_DropTopBit(hash_bytes) == [hash_bytes EXCEPT ![1] = hash_bytes[1] % 128]

\* n % (2^63 - 1) for n = hi * 2^63 + lo: n is congruent to hi + lo
ModReduce(hash_bytes) ==
    LET hi  == hash_bytes[1] \div 128
        lo  == [hash_bytes EXCEPT ![1] = hash_bytes[1] % 128]
        sum == IF hi = 1 THEN IncAt(lo, 8) ELSE lo
    IN  IF sum = Modulus THEN <<0, 0, 0, 0, 0, 0, 0, 0>>
        ELSE IF sum[1] >= 128 THEN <<0, 0, 0, 0, 0, 0, 0, 1>>
        ELSE sum

_string_id_to_int(string_id) == ModReduce(md5_digest8(string_id))

-----------------------------------------------------------------------------
(* EmbeddedChunk.to_vector_db_format and the chunks of the model *)

EChunk(id, vector, content, source_file, source_type, page_number,
       chunk_index, start_char, end_char, metadata) ==
    [id |-> id, vector |-> vector, content |-> content,
     source_file |-> source_file, source_type |-> source_type,
     page_number |-> page_number, chunk_index |-> chunk_index,
     start_char |-> start_char, end_char |-> end_char,
     metadata |-> metadata, embedding_model |-> "all-MiniLM-L6-v2"]

\* Embedded chunks a caller may insert. Unit vectors, so that the cosine
\* similarity the engine computes is the dot product.
ChunkPool ==
    { EChunk("c1", <<1, 0>>, "hello world", "a.pdf", "pdf",
             None, 0, None, None, MetaStr("not json")),
      EChunk("c1", <<0, 1>>, "hello again", "a.pdf", "pdf",
             Some(3), 1, Some(0), Some(11), MetaDict({<<"k", "v">>})),
      EChunk("u", <<0, 1>>, "from u", "u.txt", "text",
             Some(2), 2, None, None, EmptyDict),
      EChunk("v", <<-1, 0>>, "from v", "v.txt", "text",
             None, 3, Some(1), Some(6), MetaStr("\"abc\"")) }

\* the sequences of at most n distinct elements of S
RECURSIVE SeqsUpTo(_, _)
SeqsUpTo(S, n) ==
    IF n = 0 THEN {<<>>}
    ELSE LET shorter == SeqsUpTo(S, n - 1)
         IN  shorter \cup
             UNION { {Append(s, x) : x \in {y \in S : \A m \in DOMAIN s : s[m] /= y}} :
                     s \in shorter }

\* the batches a caller hands to insert_embeddings
Batches == SeqsUpTo(ChunkPool, MaxBatch)

QueryVectors == {<<1, 0>>, <<0, 1>>}

Filters == {None, Some(1)}

-----------------------------------------------------------------------------
(* The engine (qdrant_client.QdrantClient), as the store's calls use it *)

NoCollection == [exists |-> FALSE, dim |-> 0, points |-> <<>>]

\* cosine similarity of unit vectors
RECURSIVE Dot(_, _)
Dot(a, b) == IF a = <<>> THEN 0 ELSE a[1] * b[1] + Dot(Tail(a), Tail(b))

\* client.upsert: points are applied in order, a later point with the same
\* id replaces the earlier one
RECURSIVE UpsertPoints(_, _)
UpsertPoints(pts, points) ==
    IF points = <<>> THEN pts
    ELSE LET p == points[1]
             next == [k \in DOMAIN pts \cup {p.id} |->
                         IF k = p.id THEN [vector |-> p.vector, payload |-> p.payload]
                         ELSE pts[k]]
         IN  UpsertPoints(next, Tail(points))

\* whether the engine accepts the upsert request
UpsertAccepted(e, points) ==
    /\ e.exists
    /\ \A n \in 1..Len(points) : Len(points[n].vector) = e.dim

\* whether the engine accepts the query request
QueryAccepted(e, query_vector) == e.exists /\ Len(query_vector) = e.dim

\* client.query_points: the answers the engine may give: up to `limit`
\* points, highest similarity first (ties in any order)
QueryAnswers(e, query_vector, limit) ==
    LET keys == DOMAIN e.points
        m    == IF Cardinality(keys) < limit THEN Cardinality(keys) ELSE limit
        sim(k) == Dot(e.points[k].vector, query_vector)
    IN  { [n \in 1..m |-> [id |-> s[n], score |-> sim(s[n]),
                           payload |-> e.points[s[n]].payload]] :
            s \in { t \in [1..m -> keys] :
                      /\ \A a, b \in 1..m : a < b => t[a] /= t[b] /\ sim(t[a]) >= sim(t[b])
                      /\ \A k \in keys : (\A a \in 1..m : t[a] /= k) =>
                                            \A a \in 1..m : sim(t[a]) >= sim(k) } }

\* client.retrieve(ids=[point_id], with_payload=True, with_vectors=False)
Retrieve(e, point_id) ==
    IF point_id \in DOMAIN e.points
    THEN <<[id |-> point_id, payload |-> e.points[point_id].payload]>>
    ELSE <<>>

-----------------------------------------------------------------------------
(* QdrantVectorDB *)

\* the fields of an object: self.collection_exists, self.embedding_dim
NoInstance == [state |-> "none", collection_exists |-> FALSE, embedding_dim |-> 0]

Ready(i) == inst[i].state = "ready"

\* a request sent to the engine and whether the engine answered it
Call(request, ok) == [request |-> request, ok |-> ok]

\* what a method does: the object and the engine afterwards, whether it
\* returned or raised, what it returned, the requests it sent
Effect(self, e, outcome, result, calls) ==
    [self |-> self, engine |-> e, outcome |-> outcome, result |-> result, calls |-> calls]

\* Faulty variant of _setup_collection: the existence check is skipped and
\* the collection is created anew whenever the engine answers.
_setup_collection_AlwaysCreates(self, e, listOk, createOk) ==
    IF ~listOk THEN
        Effect(self, e, "raise", None, <<Call("get_collections", FALSE)>>)
    ELSE IF ~createOk THEN
        Effect(self, e, "raise", None,
               <<Call("get_collections", TRUE), Call("create_collection", FALSE)>>)
    ELSE
        Effect([self EXCEPT !.collection_exists = TRUE],
               [exists |-> TRUE, dim |-> self.embedding_dim, points |-> <<>>],
               "ok", None,
               <<Call("get_collections", TRUE), Call("create_collection", TRUE)>>)

\* Faulty variant of _setup_collection: a listed collection whose dimension
\* is not the configured one is created anew with the configured dimension.
_setup_collection_Migrates(self, e, listOk, createOk) ==
    IF ~listOk THEN
        Effect(self, e, "raise", None, <<Call("get_collections", FALSE)>>)
    ELSE IF e.exists /\ e.dim = self.embedding_dim THEN
        Effect([self EXCEPT !.collection_exists = TRUE], e, "ok", None,
               <<Call("get_collections", TRUE)>>)
    ELSE IF ~createOk THEN
        Effect(self, e, "raise", None,
               <<Call("get_collections", TRUE), Call("create_collection", FALSE)>>)
    ELSE
        Effect([self EXCEPT !.collection_exists = TRUE],
               [exists |-> TRUE, dim |-> self.embedding_dim, points |-> <<>>],
               "ok", None,
               <<Call("get_collections", TRUE), Call("create_collection", TRUE)>>)

\* _setup_collection. listOk and createOk: the engine answers
\* get_collections and create_collection.
_setup_collection(self, e, listOk, createOk) ==
    IF ~listOk THEN
        Effect(self, e, "raise", None, <<Call("get_collections", FALSE)>>)
    ELSE IF e.exists THEN
        Effect([self EXCEPT !.collection_exists = TRUE], e, "ok", None,
               <<Call("get_collections", TRUE)>>)
    ELSE IF ~createOk THEN
        Effect(self, e, "raise", None,
               <<Call("get_collections", TRUE), Call("create_collection", FALSE)>>)
    ELSE
        Effect([self EXCEPT !.collection_exists = TRUE],
               [exists |-> TRUE, dim |-> self.embedding_dim, points |-> <<>>],
               "ok", None,
               <<Call("get_collections", TRUE), Call("create_collection", TRUE)>>)

\* __init__: the fields, _initialize_client, _setup_collection.
\* clientOk: the client can be opened.
QdrantVectorDB(embedding_dim, e, clientOk, listOk, createOk) ==
    LET self == [state |-> "failed", collection_exists |-> FALSE,
                 embedding_dim |-> embedding_dim]
    IN  IF ~clientOk THEN Effect(self, e, "raise", None, <<>>)
        ELSE LET r == _setup_collection(self, e, listOk, createOk)
             IN  IF r.outcome = "ok"
                 THEN [r EXCEPT !.self = [r.self EXCEPT !.state = "ready"]]
                 ELSE r

\* Faulty variant of create_index: the readiness flag is not consulted.
create_index_Unguarded(self, e) == Effect(self, e, "ok", None, <<>>)

\* create_index
create_index(self, e) ==
    IF ~self.collection_exists THEN Effect(self, e, "raise", None, <<>>)
    ELSE Effect(self, e, "ok", None, <<>>)

\* Faulty variant of PayloadOf: an absent page_number, start_char or end_char
\* is left out of the payload instead of being stored as -1.
PayloadOf_OmitsAbsent(chunk_data) ==
    LET absent == {k \in {"page_number", "start_char", "end_char"} : chunk_data[k] = None}
        keys == ({"content", "source_file", "source_type", "page_number", "chunk_index",
                  "start_char", "end_char", "embedding_model"} \ absent)
                \cup (IF Truthy(chunk_data.metadata) THEN {"metadata"} ELSE {})
                \cup {"original_id"}
    IN  [k \in keys |->
            CASE k \in {"page_number", "start_char", "end_char"} -> chunk_data[k][1]
              [] k = "original_id" -> chunk_data.id
              [] k = "metadata" -> IF chunk_data.metadata.t = "dict"
                                   THEN chunk_data.metadata
                                   ELSE LoadsOrEmpty(chunk_data.metadata)
              [] OTHER -> chunk_data[k]]

\* the payload insert_embeddings builds for one chunk
PayloadOf(chunk_data) ==
    LET payload ==
            [content |-> chunk_data.content,
             source_file |-> chunk_data.source_file,
             source_type |-> chunk_data.source_type,
             page_number |-> IF chunk_data.page_number /= None
                             THEN chunk_data.page_number[1] ELSE -1,
             chunk_index |-> chunk_data.chunk_index,
             start_char |-> IF chunk_data.start_char /= None
                            THEN chunk_data.start_char[1] ELSE -1,
             end_char |-> IF chunk_data.end_char /= None
                          THEN chunk_data.end_char[1] ELSE -1,
             embedding_model |-> chunk_data.embedding_model,
             original_id |-> chunk_data.id]
        withMeta(m) == [k \in DOMAIN payload \cup {"metadata"} |->
                           IF k = "metadata" THEN m ELSE payload[k]]
    IN  IF Truthy(chunk_data.metadata)
        THEN IF chunk_data.metadata.t = "dict"
             THEN withMeta(chunk_data.metadata)
             ELSE withMeta(LoadsOrEmpty(chunk_data.metadata))
        ELSE payload

\* the PointStruct insert_embeddings builds for one chunk
PointOf(chunk_data) ==
    [id |-> _string_id_to_int(chunk_data.id),
     vector |-> chunk_data.vector,
     payload |-> PayloadOf(chunk_data)]

\* Faulty variant of PointsOf: the points are listed in reverse order.
PointsOf_Reversed(embedded_chunks) ==
    [n \in 1..Len(embedded_chunks) |->
        PointOf(embedded_chunks[Len(embedded_chunks) + 1 - n])]

\* the points list, in the order of the chunks
PointsOf(embedded_chunks) ==
    [n \in 1..Len(embedded_chunks) |-> PointOf(embedded_chunks[n])]

\* Faulty variant of insert_embeddings: one id is returned per distinct key
\* of the batch, not one per chunk.
insert_embeddings_IdsOfStored(self, e, embedded_chunks, engineOk) ==
    IF embedded_chunks = <<>> THEN Effect(self, e, "ok", <<>>, <<>>)
    ELSE LET points == PointsOf(embedded_chunks)
             keys == {points[n].id : n \in 1..Len(points)}
         IN  IF engineOk /\ UpsertAccepted(e, points)
             THEN Effect(self, [e EXCEPT !.points = UpsertPoints(e.points, points)],
                         "ok", [n \in 1..Cardinality(keys) |-> points[n].id],
                         <<Call("upsert", TRUE)>>)
             ELSE Effect(self, e, "raise", None, <<Call("upsert", FALSE)>>)

\* Faulty variant of insert_embeddings: a failure of the upsert is caught
\* and an empty id list returned.
insert_embeddings_SwallowsError(self, e, embedded_chunks, engineOk) ==
    IF embedded_chunks = <<>> THEN Effect(self, e, "ok", <<>>, <<>>)
    ELSE LET points == PointsOf(embedded_chunks)
         IN  IF engineOk /\ UpsertAccepted(e, points)
             THEN Effect(self, [e EXCEPT !.points = UpsertPoints(e.points, points)],
                         "ok", [n \in 1..Len(points) |-> points[n].id],
                         <<Call("upsert", TRUE)>>)
             ELSE Effect(self, e, "ok", <<>>, <<Call("upsert", FALSE)>>)

\* Faulty variant of insert_embeddings: the early return for an empty list
\* is missing, so an upsert of no points is sent.
insert_embeddings_NoEmptyCheck(self, e, embedded_chunks, engineOk) ==
    LET points == PointsOf(embedded_chunks)
    IN  IF engineOk /\ UpsertAccepted(e, points)
        THEN Effect(self, [e EXCEPT !.points = UpsertPoints(e.points, points)],
                    "ok", [n \in 1..Len(points) |-> points[n].id],
                    <<Call("upsert", TRUE)>>)
        ELSE Effect(self, e, "raise", None, <<Call("upsert", FALSE)>>)

\* insert_embeddings. engineOk: the engine is reachable.
insert_embeddings(self, e, embedded_chunks, engineOk) ==
    IF embedded_chunks = <<>> THEN Effect(self, e, "ok", <<>>, <<>>)
    ELSE LET points == PointsOf(embedded_chunks)
         IN  IF engineOk /\ UpsertAccepted(e, points)
             THEN Effect(self, [e EXCEPT !.points = UpsertPoints(e.points, points)],
                         "ok", [n \in 1..Len(points) |-> points[n].id],
                         <<Call("upsert", TRUE)>>)
             ELSE Effect(self, e, "raise", None, <<Call("upsert", FALSE)>>)

\* Faulty variant of ScoreOf: the similarity is passed through unconverted.
ScoreOf_Raw(score) == score

\* 'score': 1 - score
ScoreOf(score) == 1 - score

\* payload.get(key) if payload.get(key) != -1 else None
FromSentinel(payload, key) ==
    IF key \in DOMAIN payload /\ payload[key] /= -1 THEN Some(payload[key]) ELSE None

\* one formatted search result
FormatResult(point) ==
    LET payload == point.payload
    IN  [id |-> Get(payload, "original_id", point.id),
         score |-> ScoreOf(point.score),
         content |-> Get(payload, "content", ""),
         citation |-> [source_file |-> Get(payload, "source_file", ""),
                       source_type |-> Get(payload, "source_type", ""),
                       page_number |-> FromSentinel(payload, "page_number"),
                       chunk_index |-> Get(payload, "chunk_index", 0),
                       start_char |-> FromSentinel(payload, "start_char"),
                       end_char |-> FromSentinel(payload, "end_char")],
         metadata |-> Get(payload, "metadata", EmptyDict),
         embedding_model |-> Get(payload, "embedding_model", "")]

\* formatted_results, in the order of the engine's points
FormatResults(points) == [n \in 1..Len(points) |-> FormatResult(points[n])]

\* Faulty variant of search: the filter is evaluated (Some(n) selects the
\* points whose chunk_index is n) and handed to the engine.
search_Filtered(self, e, query_vector, limit, filter_expr, engineOk, answer) ==
    IF engineOk /\ QueryAccepted(e, query_vector)
    THEN LET kept == IF filter_expr = None THEN answer
                     ELSE SelectSeq(answer,
                                    LAMBDA p : p.payload.chunk_index = filter_expr[1])
         IN  Effect(self, e, "ok", FormatResults(kept),
                    <<[request |-> "query_points", ok |-> TRUE,
                       query_filter |-> filter_expr,
                       limit |-> limit, points |-> kept]>>)
    ELSE Effect(self, e, "raise", None, <<Call("query_points", FALSE)>>)

\* search. The engine is always queried with query_filter = None; answer
\* is what the engine returns when it accepts the query.
search(self, e, query_vector, limit, filter_expr, engineOk, answer) ==
    IF engineOk /\ QueryAccepted(e, query_vector)
    THEN Effect(self, e, "ok", FormatResults(answer),
                <<[request |-> "query_points", ok |-> TRUE, query_filter |-> None,
                   limit |-> limit, points |-> answer]>>)
    ELSE Effect(self, e, "raise", None, <<Call("query_points", FALSE)>>)

\* Faulty variant of delete_collection: the readiness flag is not cleared.
delete_collection_KeepsFlag(self, e, engineOk) ==
    IF self.collection_exists THEN
        IF engineOk
        THEN Effect(self, NoCollection, "ok", None, <<Call("delete_collection", TRUE)>>)
        ELSE Effect(self, e, "raise", None, <<Call("delete_collection", FALSE)>>)
    ELSE Effect(self, e, "ok", None, <<>>)

\* Faulty variant of delete_collection: the readiness flag is cleared before
\* the request is sent, so it stays cleared when the request fails.
delete_collection_ClearsFlagFirst(self, e, engineOk) ==
    IF self.collection_exists THEN
        IF engineOk
        THEN Effect([self EXCEPT !.collection_exists = FALSE], NoCollection, "ok", None,
                    <<Call("delete_collection", TRUE)>>)
        ELSE Effect([self EXCEPT !.collection_exists = FALSE], e, "raise", None,
                    <<Call("delete_collection", FALSE)>>)
    ELSE Effect(self, e, "ok", None, <<>>)

\* delete_collection. Deleting a collection the engine does not hold is
\* answered by the engine and changes nothing.
delete_collection(self, e, engineOk) ==
    IF self.collection_exists THEN
        IF engineOk
        THEN Effect([self EXCEPT !.collection_exists = FALSE], NoCollection, "ok", None,
                    <<Call("delete_collection", TRUE)>>)
        ELSE Effect(self, e, "raise", None, <<Call("delete_collection", FALSE)>>)
    ELSE Effect(self, e, "ok", None, <<>>)

\* Faulty variant of ChunkRecord: the -1 sentinel is not translated back.
ChunkRecord_NoSentinel(result) ==
    LET payload == result.payload
        metadata == Get(payload, "metadata", EmptyDict)
    IN  [id |-> Get(payload, "original_id", result.id),
         content |-> Get(payload, "content", ""),
         metadata |-> IF metadata.t = "str" THEN LoadsOrEmpty(metadata) ELSE metadata,
         source_file |-> Get(payload, "source_file", ""),
         source_type |-> Get(payload, "source_type", ""),
         page_number |-> IF "page_number" \in DOMAIN payload
                         THEN Some(payload.page_number) ELSE None,
         chunk_index |-> Get(payload, "chunk_index", 0)]

\* the record get_chunk_by_id builds from a retrieved point
ChunkRecord(result) ==
    LET payload == result.payload
        metadata == Get(payload, "metadata", EmptyDict)
    IN  [id |-> Get(payload, "original_id", result.id),
         content |-> Get(payload, "content", ""),
         metadata |-> IF metadata.t = "str" THEN LoadsOrEmpty(metadata) ELSE metadata,
         source_file |-> Get(payload, "source_file", ""),
         source_type |-> Get(payload, "source_type", ""),
         page_number |-> FromSentinel(payload, "page_number"),
         chunk_index |-> Get(payload, "chunk_index", 0)]

\* Faulty variant of get_chunk_by_id: a failure of the engine call is
\* propagated instead of caught.
get_chunk_by_id_Propagates(self, e, chunk_id, engineOk) ==
    IF ~self.collection_exists THEN Effect(self, e, "ok", None, <<>>)
    ELSE IF engineOk /\ e.exists
    THEN LET results == Retrieve(e, _string_id_to_int(chunk_id))
         IN  Effect(self, e, "ok",
                    IF Len(results) > 0 THEN ChunkRecord(results[1]) ELSE None,
                    <<Call("retrieve", TRUE)>>)
    ELSE Effect(self, e, "raise", None, <<Call("retrieve", FALSE)>>)

\* Faulty variant of get_chunk_by_id: a point whose original_id differs from
\* the id asked for is reported as absent.
get_chunk_by_id_ChecksId(self, e, chunk_id, engineOk) ==
    IF ~self.collection_exists THEN Effect(self, e, "ok", None, <<>>)
    ELSE IF engineOk /\ e.exists
    THEN LET results == Retrieve(e, _string_id_to_int(chunk_id))
         IN  Effect(self, e, "ok",
                    IF Len(results) > 0 /\ results[1].payload.original_id = chunk_id
                    THEN ChunkRecord(results[1]) ELSE None,
                    <<Call("retrieve", TRUE)>>)
    ELSE Effect(self, e, "ok", None, <<Call("retrieve", FALSE)>>)

\* get_chunk_by_id. The engine rejects a retrieve from a collection it does
\* not hold; every exception is caught and None returned.
get_chunk_by_id(self, e, chunk_id, engineOk) ==
    IF ~self.collection_exists THEN Effect(self, e, "ok", None, <<>>)
    ELSE IF engineOk /\ e.exists
    THEN LET results == Retrieve(e, _string_id_to_int(chunk_id))
         IN  Effect(self, e, "ok",
                    IF Len(results) > 0 THEN ChunkRecord(results[1]) ELSE None,
                    <<Call("retrieve", TRUE)>>)
    ELSE Effect(self, e, "ok", None, <<Call("retrieve", FALSE)>>)

\* close
close(self, e) == Effect(self, e, "ok", None, <<>>)

\* the record of an operation: who, with what arguments, in which
\* environment (env: the engine's availability), and its Effect
Op(op, i, arg, env, outcome, result, calls) ==
    [op |-> op, i |-> i, arg |-> arg, env |-> env, outcome |-> outcome,
     result |-> result, calls |-> calls]

NoOp == Op("none", 0, None, None, "ok", None, <<>>)

\* a method of object i takes effect
Apply(i, op, arg, env, r) ==
    /\ inst' = [inst EXCEPT ![i] = r.self]
    /\ engine' = r.engine
    /\ last' = Op(op, i, arg, env, r.outcome, r.result, r.calls)
    /\ UNCHANGED genVars

\* The objects are numbered in the order of their construction.
Construct(i, embedding_dim, clientOk, listOk, createOk) ==
    /\ inst[i].state /= "ready"
    /\ \A j \in Instances : j < i => Ready(j)
    /\ Apply(i, "construct", embedding_dim,
             [clientOk |-> clientOk, listOk |-> listOk, createOk |-> createOk],
             QdrantVectorDB(embedding_dim, engine, clientOk, listOk, createOk))

CreateIndex(i) ==
    /\ Ready(i)
    /\ Apply(i, "create_index", None, None, create_index(inst[i], engine))

InsertEmbeddings(i, embedded_chunks, engineOk) ==
    /\ Ready(i)
    /\ Apply(i, "insert_embeddings", embedded_chunks, engineOk,
             insert_embeddings(inst[i], engine, embedded_chunks, engineOk))

Search(i, query_vector, limit, filter_expr, engineOk) ==
    /\ Ready(i)
    /\ \E answer \in IF engineOk /\ QueryAccepted(engine, query_vector)
                     THEN QueryAnswers(engine, query_vector, limit) ELSE {<<>>} :
           Apply(i, "search",
                 [query_vector |-> query_vector, limit |-> limit,
                  filter_expr |-> filter_expr],
                 engineOk,
                 search(inst[i], engine, query_vector, limit, filter_expr, engineOk, answer))

DeleteCollection(i, engineOk) ==
    /\ Ready(i)
    /\ Apply(i, "delete_collection", None, engineOk,
             delete_collection(inst[i], engine, engineOk))

GetChunkById(i, chunk_id, engineOk) ==
    /\ Ready(i)
    /\ Apply(i, "get_chunk_by_id", chunk_id, engineOk,
             get_chunk_by_id(inst[i], engine, chunk_id, engineOk))

Close(i) ==
    /\ Ready(i)
    /\ Apply(i, "close", None, None, close(inst[i], engine))

-----------------------------------------------------------------------------
(* EmbeddingGenerator *)

\* output widths of the models, scaled down (the real ones are 384 and 768)
SmallWidth == 2

BaseWidth == 3

\* longest chunk list handed to generate_embeddings
MaxChunks == 2

\* longest list of chunk batches handed to batch_generate_embeddings
MaxBatches == 2

\* largest batch_size handed to batch_generate_embeddings
MaxBatchSize == 2

\* max_retries of the fastembed attempt
max_retries == 2

ModelNames == {"BAAI/bge-small-en-v1.5", "BAAI/bge-base-en-v1.5"}

MiniLM == "sentence-transformers/all-MiniLM-L6-v2"

\* the output width of a model
WidthOf(model_name) == IF model_name = "BAAI/bge-base-en-v1.5" THEN BaseWidth ELSE SmallWidth

\* DocumentChunk (the fields the generator reads)
DocChunk(chunk_id, content) == [chunk_id |-> chunk_id, content |-> content]

DocChunks == {DocChunk("c1", "hello world"), DocChunk("c3", "bye"), DocChunk("u", "bye")}

ChunkLists == SeqsUpTo(DocChunks, MaxChunks)

Texts == {"hello world", "bye"}

TextCode(text) ==
    CASE text = "test" -> 0
      [] text = "hello world" -> 1
      [] text = "bye" -> 2

KindCode(kind) ==
    CASE kind = "TextEmbedding" -> 1
      [] kind = "SentenceTransformer" -> 2
      [] kind = "EmbeddingWrapper" -> 3

\* a loaded model: TextEmbedding, SentenceTransformer or EmbeddingWrapper
Handle(kind, name) == [kind |-> kind, name |-> name]

\* model.embed / model.encode: one vector per text, as wide as the model
EmbedTexts(model, texts) ==
    [n \in 1..Len(texts) |->
        [j \in 1..WidthOf(model.name) |-> TextCode(texts[n]) + j * KindCode(model.kind)]]

\* the environments the generator may be constructed in: which libraries
\* import, the host platform, whether .embedding_model holds a model.
\* sentence_transformers itself imports transformers and torch.
Environments ==
    { e \in [FASTEMBED_AVAILABLE : BOOLEAN, SENTENCE_TRANSFORMERS_AVAILABLE : BOOLEAN,
             TRANSFORMERS_AVAILABLE : BOOLEAN, torch : BOOLEAN,
             windows : BOOLEAN, local_model : BOOLEAN] :
        e.SENTENCE_TRANSFORMERS_AVAILABLE => e.TRANSFORMERS_AVAILABLE /\ e.torch }

NewGen(env) ==
    [pc |-> "new", env |-> env, model_name |-> "", model |-> None,
     embedding_dim |-> None, use_fastembed |-> FALSE, attempt |-> 0, tried |-> <<>>]

\* the attempts made so far, in order: the candidate and whether it succeeded
Tried(g, candidate, ok) ==
    [g EXCEPT !.tried = Append(g.tried, [candidate |-> candidate, ok |-> ok])]

\* the one-text probe: embedding_dim = len(sample_embedding)
ProbeDim(model) == Len(EmbedTexts(model, <<"test">>)[1])

\* initialization ends: the backend is active with the probed dimension
Activated(g, model, model_name) ==
    [g EXCEPT !.pc = "ready", !.model = model, !.model_name = model_name,
              !.embedding_dim = Some(ProbeDim(model))]

\* Faulty variant of Raised: the exception is swallowed and the constructor
\* returns.
Raised_Swallowed(g) == [g EXCEPT !.pc = "ready"]

\* initialization ends with an exception leaving the constructor
Raised(g) == [g EXCEPT !.pc = "raised"]

\* __init__: use_fastembed is None, TRUE or FALSE
GenInit(g, model_name, use_fastembed) ==
    LET requested == IF use_fastembed = None THEN ~g.env.windows ELSE use_fastembed[1]
        use == requested /\ g.env.FASTEMBED_AVAILABLE
    IN  [g EXCEPT !.model_name = model_name, !.model = None, !.embedding_dim = None,
                  !.use_fastembed = use, !.attempt = 0,
                  !.pc = IF use THEN "fastembed" ELSE "fallback"]

\* Faulty variant of FastembedAttempt: the return after a successful probe is
\* missing, so the fallback block runs next.
FastembedAttempt_NoReturn(g, loaded, probed) ==
    LET model == Handle("TextEmbedding", g.model_name)
        t == Tried(g, "A", loaded /\ probed)
    IN  IF loaded /\ probed
        THEN [t EXCEPT !.model = model, !.embedding_dim = Some(ProbeDim(model)),
                       !.use_fastembed = FALSE, !.pc = "fallback"]
        ELSE LET f == IF loaded THEN [t EXCEPT !.model = model] ELSE t
             IN  IF g.attempt = max_retries - 1
                 THEN [f EXCEPT !.use_fastembed = FALSE, !.pc = "fallback"]
                 ELSE [f EXCEPT !.attempt = g.attempt + 1]

\* Faulty variant of FastembedAttempt: the loop gives up one pass late
\* (attempt == max_retries instead of max_retries - 1).
FastembedAttempt_OneMore(g, loaded, probed) ==
    LET model == Handle("TextEmbedding", g.model_name)
        t == Tried(g, "A", loaded /\ probed)
    IN  IF loaded /\ probed THEN Activated(t, model, g.model_name)
        ELSE LET f == IF loaded THEN [t EXCEPT !.model = model] ELSE t
             IN  IF g.attempt = max_retries
                 THEN [f EXCEPT !.use_fastembed = FALSE, !.pc = "fallback"]
                 ELSE [f EXCEPT !.attempt = g.attempt + 1]

\* one pass of the fastembed retry loop; loaded: TextEmbedding(...) returned,
\* probed: the probe embed call returned
FastembedAttempt(g, loaded, probed) ==
    LET model == Handle("TextEmbedding", g.model_name)
        t == Tried(g, "A", loaded /\ probed)
    IN  IF loaded /\ probed THEN Activated(t, model, g.model_name)
        ELSE LET f == IF loaded THEN [t EXCEPT !.model = model] ELSE t
             IN  IF g.attempt = max_retries - 1
                 THEN [f EXCEPT !.use_fastembed = FALSE, !.pc = "fallback"]
                 ELSE [f EXCEPT !.attempt = g.attempt + 1]

\* the guard of the fallback block and its imports (transformers, torch)
EnterFallback(g) ==
    IF ~g.use_fastembed /\ (g.env.SENTENCE_TRANSFORMERS_AVAILABLE \/ g.env.TRANSFORMERS_AVAILABLE)
    THEN IF ~(g.env.TRANSFORMERS_AVAILABLE /\ g.env.torch) THEN Raised(g)
         ELSE IF g.env.SENTENCE_TRANSFORMERS_AVAILABLE
         THEN [g EXCEPT !.pc = IF g.env.local_model THEN "st_local" ELSE "st_download"]
         ELSE [g EXCEPT !.pc = "transformers"]
    ELSE Raised(g)

\* SentenceTransformer(local_model_path) on the model directory found
StLocal(g, loaded) ==
    LET t == Tried(g, "B.local", loaded)
    IN  IF loaded
        THEN [t EXCEPT !.model = Handle("SentenceTransformer", MiniLM), !.pc = "st_probe"]
        ELSE [t EXCEPT !.pc = "transformers"]

\* snapshot_download into the model directory, then SentenceTransformer on it
StDownload(g, loaded) ==
    LET t == Tried(g, "B.download", loaded)
    IN  IF loaded
        THEN [t EXCEPT !.model = Handle("SentenceTransformer", MiniLM), !.pc = "st_probe"]
        ELSE [t EXCEPT !.pc = "st_direct"]

\* SentenceTransformer(model_name): the direct load by name
StDirect(g, loaded) ==
    LET t == Tried(g, "B.direct", loaded)
    IN  IF loaded
        THEN [t EXCEPT !.model = Handle("SentenceTransformer", MiniLM), !.pc = "st_probe"]
        ELSE [t EXCEPT !.pc = "transformers"]

\* the probe of the loaded SentenceTransformer
StProbe(g, probed) ==
    IF probed THEN Activated(g, g.model, MiniLM)
    ELSE [g EXCEPT !.pc = "transformers", !.tried[Len(g.tried)].ok = FALSE]

\* the bare transformer with mean pooling: load, wrap, probe
TransformersFallback(g, loaded, probed) ==
    LET model == Handle("EmbeddingWrapper", MiniLM)
        t == Tried(g, "C", loaded /\ probed)
    IN  IF loaded /\ probed THEN Activated(t, model, MiniLM)
        ELSE IF loaded THEN Raised([t EXCEPT !.model = model])
        ELSE Raised(t)

GenOp(op, arg, outcome, result, calls) ==
    [op |-> op, arg |-> arg, outcome |-> outcome, result |-> result, calls |-> calls]

NoGenOp == GenOp("none", None, "ok", None, <<>>)

\* EmbeddingGenerator(model_name, use_fastembed) is called
GenConstruct(model_name, use_fastembed) ==
    /\ gen.pc = "new"
    /\ gen' = GenInit(gen, model_name, use_fastembed)
    /\ glast' = GenOp("construct", <<model_name, use_fastembed>>, "ok", None, <<>>)
    /\ UNCHANGED storeVars

\* _initialize_model, one step of the ladder at a time
InitStep(loaded, probed) ==
    /\ gen.pc \in {"fastembed", "fallback", "st_local", "st_download", "st_direct",
                   "st_probe", "transformers"}
    /\ gen' = CASE gen.pc = "fastembed"    -> FastembedAttempt(gen, loaded, probed)
                [] gen.pc = "fallback"     -> EnterFallback(gen)
                [] gen.pc = "st_local"     -> StLocal(gen, loaded)
                [] gen.pc = "st_download"  -> StDownload(gen, loaded)
                [] gen.pc = "st_direct"    -> StDirect(gen, loaded)
                [] gen.pc = "st_probe"     -> StProbe(gen, probed)
                [] gen.pc = "transformers" -> TransformersFallback(gen, loaded, probed)
    /\ glast' = GenOp("construct", glast.arg,
                      IF gen'.pc = "raised" THEN "raise" ELSE "ok", None, <<>>)
    /\ UNCHANGED storeVars

\* Faulty variant of ZipChunks: the last chunk is left out.
ZipChunks_DropLast(chunks, embeddings, model_name) ==
    [n \in 1..Len(chunks) - 1 |-> [chunk |-> chunks[n], embedding |-> embeddings[n],
                                   embedding_model |-> model_name]]

\* the EmbeddedChunk list built from the chunks and the backend's vectors
ZipChunks(chunks, embeddings, model_name) ==
    LET m == IF Len(chunks) < Len(embeddings) THEN Len(chunks) ELSE Len(embeddings)
    IN  [n \in 1..m |-> [chunk |-> chunks[n], embedding |-> embeddings[n],
                         embedding_model |-> model_name]]

\* the method the operations call on the model handle: embed when
\* self.use_fastembed is set, encode otherwise
MethodOf(g) == IF g.use_fastembed THEN "embed" ELSE "encode"

\* the methods a handle has: TextEmbedding.embed, SentenceTransformer.encode,
\* EmbeddingWrapper.encode
Supports(model, method) == (method = "embed") <=> (model.kind = "TextEmbedding")

\* one call into the backend: the handle, the method, the texts, and whether
\* it returned (backendOk: the model itself does not fail)
BackendCall(g, texts, backendOk) ==
    [model |-> g.model, method |-> MethodOf(g), texts |-> texts,
     ok |-> backendOk /\ Supports(g.model, MethodOf(g))]

\* Faulty variant of GenerateEmbeddingsOf: a failure of the backend call is
\* caught, the call is repeated without the last chunk and what that yields
\* is returned.
GenerateEmbeddingsOf_PartialOnError(g, chunks, backendOk) ==
    IF chunks = <<>> THEN GenOp("generate_embeddings", chunks, "ok", <<>>, <<>>)
    ELSE LET texts == [n \in 1..Len(chunks) |-> chunks[n].content]
             call == BackendCall(g, texts, backendOk)
             fewer == SubSeq(texts, 1, Len(texts) - 1)
         IN  IF call.ok
             THEN GenOp("generate_embeddings", chunks, "ok",
                        ZipChunks(chunks, EmbedTexts(call.model, texts), g.model_name),
                        <<call>>)
             ELSE GenOp("generate_embeddings", chunks, "ok",
                        ZipChunks(chunks, EmbedTexts(call.model, fewer), g.model_name),
                        <<call, BackendCall(g, fewer, TRUE)>>)

\* generate_embeddings on the object g
GenerateEmbeddingsOf(g, chunks, backendOk) ==
    IF chunks = <<>> THEN GenOp("generate_embeddings", chunks, "ok", <<>>, <<>>)
    ELSE LET texts == [n \in 1..Len(chunks) |-> chunks[n].content]
             call == BackendCall(g, texts, backendOk)
         IN  IF call.ok
             THEN GenOp("generate_embeddings", chunks, "ok",
                        ZipChunks(chunks, EmbedTexts(call.model, texts), g.model_name),
                        <<call>>)
             ELSE GenOp("generate_embeddings", chunks, "raise", None, <<call>>)

\* Faulty variant of GenerateEmbeddings: after a failure of the backend call
\* the object falls back, clearing the selector and running the fallback
\* block of the initialization again.
GenerateEmbeddings_ReinitOnFailure(chunks, backendOk) ==
    /\ gen.pc = "ready"
    /\ glast' = GenerateEmbeddingsOf(gen, chunks, backendOk)
    /\ gen' = IF glast'.outcome = "raise"
              THEN [gen EXCEPT !.use_fastembed = FALSE, !.pc = "fallback"]
              ELSE gen
    /\ UNCHANGED storeVars

GenerateEmbeddings(chunks, backendOk) ==
    /\ gen.pc = "ready"
    /\ glast' = GenerateEmbeddingsOf(gen, chunks, backendOk)
    /\ UNCHANGED gen
    /\ UNCHANGED storeVars

\* Faulty variant of generate_query_embedding: queries are embedded by a
\* SentenceTransformer of their own, whatever backend is active.
generate_query_embedding_OwnModel(g, query_text, backendOk) ==
    LET own == [g EXCEPT !.model = Handle("SentenceTransformer", MiniLM),
                         !.use_fastembed = FALSE]
        call == BackendCall(own, <<query_text>>, backendOk)
    IN  IF call.ok
        THEN GenOp("generate_query_embedding", query_text, "ok",
                   EmbedTexts(call.model, <<query_text>>)[1], <<call>>)
        ELSE GenOp("generate_query_embedding", query_text, "raise", None, <<call>>)

\* generate_query_embedding on the object g
generate_query_embedding(g, query_text, backendOk) ==
    LET call == BackendCall(g, <<query_text>>, backendOk)
    IN  IF call.ok
        THEN GenOp("generate_query_embedding", query_text, "ok",
                   EmbedTexts(call.model, <<query_text>>)[1], <<call>>)
        ELSE GenOp("generate_query_embedding", query_text, "raise", None, <<call>>)

GenerateQueryEmbedding(query_text, backendOk) ==
    /\ gen.pc = "ready"
    /\ glast' = generate_query_embedding(gen, query_text, backendOk)
    /\ UNCHANGED gen
    /\ UNCHANGED storeVars

\* get_embedding_dimension
get_embedding_dimension(g) == g.embedding_dim

GetEmbeddingDimension ==
    /\ gen.pc = "ready"
    /\ glast' = GenOp("get_embedding_dimension", None, "ok", get_embedding_dimension(gen), <<>>)
    /\ UNCHANGED gen
    /\ UNCHANGED storeVars

\* the concatenation of a sequence of sequences
RECURSIVE Concat(_)
Concat(seqs) == IF seqs = <<>> THEN <<>> ELSE seqs[1] \o Concat(Tail(seqs))

\* Faulty variant of SubBatches: a last sub-batch shorter than batch_size is
\* left out.
SubBatches_DropsRemainder(chunk_batch, batch_size) ==
    [n \in 1..Len(chunk_batch) \div batch_size |->
        SubSeq(chunk_batch, (n - 1) * batch_size + 1, n * batch_size)]

\* chunk_batch[j:j + batch_size] for j in range(0, len(chunk_batch), batch_size)
SubBatches(chunk_batch, batch_size) ==
    [n \in 1..(Len(chunk_batch) + batch_size - 1) \div batch_size |->
        SubSeq(chunk_batch, (n - 1) * batch_size + 1,
               IF n * batch_size < Len(chunk_batch) THEN n * batch_size
               ELSE Len(chunk_batch))]

\* the chunk batches of the model: an empty one and one of three chunks
BatchPool ==
    { <<>>,
      <<DocChunk("c3", "bye"), DocChunk("c1", "hello world"), DocChunk("u", "bye")>> }

BatchLists == SeqsUpTo(BatchPool, MaxBatches)

\* batch_generate_embeddings on the object g (batch_size > 0). failAt: the
\* delegated call whose backend call fails, 0 for none. The exception of a
\* delegated call leaves the method at once.
batch_generate_embeddings(g, chunks_batches, batch_size, failAt) ==
    LET arg  == [chunks_batches |-> chunks_batches, batch_size |-> batch_size]
        subs == [b \in 1..Len(chunks_batches) |-> SubBatches(chunks_batches[b], batch_size)]
        flat == Concat(subs)
        ops  == [n \in 1..Len(flat) |-> GenerateEmbeddingsOf(g, flat[n], n /= failAt)]
        bad  == {n \in 1..Len(flat) : ops[n].outcome = "raise"}
    IN  IF bad /= {}
        THEN LET first == CHOOSE n \in bad : \A m \in bad : n <= m
             IN  GenOp("batch_generate_embeddings", arg, "raise", None,
                       SubSeq(ops, 1, first))
        ELSE GenOp("batch_generate_embeddings", arg, "ok",
                   [b \in 1..Len(chunks_batches) |->
                       Concat([n \in 1..Len(subs[b]) |->
                                  GenerateEmbeddingsOf(g, subs[b][n], TRUE).result])],
                   ops)

BatchGenerateEmbeddings(chunks_batches, batch_size, failAt) ==
    /\ gen.pc = "ready"
    /\ glast' = batch_generate_embeddings(gen, chunks_batches, batch_size, failAt)
    /\ UNCHANGED gen
    /\ UNCHANGED storeVars

GenInitial ==
    /\ engine = NoCollection
    /\ inst = [i \in Instances |-> NoInstance]
    /\ last = NoOp
    /\ gen \in {NewGen(env) : env \in Environments}
    /\ glast = NoGenOp

GenNext ==
    \/ \E model_name \in ModelNames, use_fastembed \in {None, Some(TRUE), Some(FALSE)} :
           GenConstruct(model_name, use_fastembed)
    \/ \E loaded, probed \in BOOLEAN : InitStep(loaded, probed)
    \/ \E chunks \in ChunkLists, backendOk \in BOOLEAN : GenerateEmbeddings(chunks, backendOk)
    \/ \E text \in Texts, backendOk \in BOOLEAN : GenerateQueryEmbedding(text, backendOk)
    \/ GetEmbeddingDimension
    \/ \E chunks_batches \in BatchLists, batch_size \in 1..MaxBatchSize :
           \E failAt \in 0..Len(Concat(chunks_batches)) :
               BatchGenerateEmbeddings(chunks_batches, batch_size, failAt)

GenSpec == GenInitial /\ [][GenNext]_vars

-----------------------------------------------------------------------------
(* _string_id_to_int applied to digests drawn from a bounded set *)

\* the first 8 digest bytes the key derivation is applied to: the digests of
\* the model's ids and the values around 0, 2^63 - 1, 2^63 and 2^64 - 1
Digests ==
    {md5_digest8(id) : id \in Ids} \cup
    { <<a, b, b, b, b, b, b, c>> :
        a \in {0, 1, 127, 128, 129, 255}, b \in {0, 255}, c \in {0, 1, 254, 255} }

\* object i derives the key of a string whose digest starts with hash_bytes
StringIdToInt(i, hash_bytes) ==
    /\ Ready(i)
    /\ last' = Op("_string_id_to_int", i, hash_bytes, None, "ok",
                  ModReduce(hash_bytes), <<>>)
    /\ UNCHANGED <<engine, inst, gen, glast>>

-----------------------------------------------------------------------------

Init ==
    /\ engine = NoCollection
    /\ inst = [i \in Instances |-> NoInstance]
    /\ last = NoOp
    /\ gen = NewGen(CHOOSE env \in Environments : TRUE)
    /\ glast = NoGenOp

Next ==
    \/ \E i \in Instances, d \in Dims, clientOk, listOk, createOk \in BOOLEAN :
           Construct(i, d, clientOk, listOk, createOk)
    \/ \E i \in Instances : CreateIndex(i)
    \/ \E i \in Instances, b \in Batches, engineOk \in BOOLEAN :
           InsertEmbeddings(i, b, engineOk)
    \/ \E i \in Instances, q \in QueryVectors, limit \in 1..MaxLimit,
          f \in Filters, engineOk \in BOOLEAN :
           Search(i, q, limit, f, engineOk)
    \/ \E i \in Instances, engineOk \in BOOLEAN : DeleteCollection(i, engineOk)
    \/ \E i \in Instances, id \in Ids, engineOk \in BOOLEAN :
           GetChunkById(i, id, engineOk)
    \/ \E i \in Instances : Close(i)

Spec == Init /\ [][Next]_vars

HashNext ==
    \/ \E i \in Instances, d \in Dims, clientOk, listOk, createOk \in BOOLEAN :
           Construct(i, d, clientOk, listOk, createOk)
    \/ \E i \in Instances, hash_bytes \in Digests : StringIdToInt(i, hash_bytes)

HashSpec == Init /\ [][HashNext]_vars

\* One store object as the only user of the engine's collection: every
\* operation is called on object 1, no second object is constructed.
SingleNext ==
    \/ \E d \in Dims, clientOk, listOk, createOk \in BOOLEAN :
           Construct(1, d, clientOk, listOk, createOk)
    \/ CreateIndex(1)
    \/ \E b \in Batches, engineOk \in BOOLEAN : InsertEmbeddings(1, b, engineOk)
    \/ \E q \in QueryVectors, limit \in 1..MaxLimit, f \in Filters, engineOk \in BOOLEAN :
           Search(1, q, limit, f, engineOk)
    \/ \E engineOk \in BOOLEAN : DeleteCollection(1, engineOk)
    \/ \E id \in Ids, engineOk \in BOOLEAN : GetChunkById(1, id, engineOk)
    \/ Close(1)

SingleSpec == Init /\ [][SingleNext]_vars

-----------------------------------------------------------------------------
(* Claims about the store, checked under Spec *)

\* the derived key of the n-th chunk of a batch
KeyAt(batch, n) == _string_id_to_int(batch[n].id)

\* the n-th chunk is the last one of the batch with its derived key
LastWithKey(batch, n) ==
    \A m \in n + 1..Len(batch) : KeyAt(batch, m) /= KeyAt(batch, n)

\* what get_chunk_by_id(chunk_id) returns to object i in the current state
\* when the engine answers
Lookup(i, chunk_id) == get_chunk_by_id(inst[i], engine, chunk_id, TRUE).result

\* a successful insert_embeddings of a non-empty batch has just taken effect
\* on an object whose readiness flag is set
InsertedOnReadyStore ==
    /\ last.op = "insert_embeddings"
    /\ last.outcome = "ok"
    /\ last.arg /= <<>>
    /\ inst[last.i].collection_exists

\* C1 as stated: after a successful insert_embeddings on a ready store,
\* get_chunk_by_id(X) returns a record with id X whose content and whose six
\* citation fields (source_file, source_type, page_number, chunk_index,
\* start_char, end_char) equal the inserted values, an absent one read back
\* as absent. Violated: the record has no start_char and no end_char.
C1_RoundTripSixCitationFields ==
    InsertedOnReadyStore =>
        \A n \in 1..Len(last.arg) :
            LastWithKey(last.arg, n) =>
                LET c == last.arg[n]
                    r == Lookup(last.i, c.id)
                IN  /\ r /= None
                    /\ r.id = c.id
                    /\ r.content = c.content
                    /\ \A f \in {"source_file", "source_type", "page_number",
                                 "chunk_index", "start_char", "end_char"} :
                           f \in DOMAIN r /\ r[f] = c[f]

\* C1 (amended): after a successful insert_embeddings on a ready store,
\* get_chunk_by_id(X), when the engine answers, returns a record with id X
\* whose content, source_file, source_type, page_number and chunk_index equal
\* the inserted values (an absent page_number is stored as -1 and read back
\* as absent); the record carries no start_char and no end_char.
C1_RoundTrip ==
    InsertedOnReadyStore =>
        \A n \in 1..Len(last.arg) :
            LastWithKey(last.arg, n) =>
                LET c == last.arg[n]
                    r == Lookup(last.i, c.id)
                IN  /\ r /= None
                    /\ r.id = c.id
                    /\ r.content = c.content
                    /\ \A f \in {"source_file", "source_type", "page_number",
                                 "chunk_index"} : r[f] = c[f]
                    /\ engine.points[KeyAt(last.arg, n)].payload.page_number =
                           (IF c.page_number = None THEN -1 ELSE c.page_number[1])
                    /\ "start_char" \notin DOMAIN r
                    /\ "end_char" \notin DOMAIN r

\* a chunk without page number but with a character span was inserted and is
\* read back under its id with the page number absent
C1_Witness ==
    /\ InsertedOnReadyStore
    /\ \E n \in 1..Len(last.arg) :
           /\ LastWithKey(last.arg, n)
           /\ last.arg[n].page_number = None
           /\ last.arg[n].start_char /= None
           /\ Lookup(last.i, last.arg[n].id) /= None
           /\ Lookup(last.i, last.arg[n].id).id = last.arg[n].id
           /\ Lookup(last.i, last.arg[n].id).page_number = None

\* the step is an operation `op` of some object (last' describes the step)
StepOf(op) == last'.op = op /\ last'.i \in Instances

\* C5 as stated: whenever the readiness flag is false, create_index,
\* insert_embeddings, search and get_chunk_by_id fail fast (raise or report
\* absent) without sending a request to the engine, and no operation other
\* than construction creates the collection (insert_embeddings of a
\* non-empty batch is meant). Violated: insert_embeddings and search never
\* read the flag.
C5_EveryOperationConsultsFlag ==
    [][ /\ \A op \in {"create_index", "insert_embeddings", "search", "get_chunk_by_id"} :
              ( /\ StepOf(op)
                /\ ~inst[last'.i].collection_exists
                /\ op = "insert_embeddings" => last'.arg /= <<>> ) =>
                  /\ last'.calls = <<>>
                  /\ IF op = "get_chunk_by_id"
                     THEN last'.outcome = "ok" /\ last'.result = None
                     ELSE last'.outcome = "raise"
        /\ ~engine.exists /\ engine'.exists => last'.op = "construct" ]_vars

\* C5 (amended): create_index and get_chunk_by_id consult the readiness flag
\* and, when it is false, fail fast (raise, report absent) without a request
\* to the engine. insert_embeddings of a non-empty batch and search do not
\* consult it: they always send their one request and raise exactly when the
\* engine does not answer or rejects it, as it does while the collection is
\* absent. No operation other than construction creates the collection.
C5_FlagConsultedByIndexAndLookup ==
    [][ /\ StepOf("create_index") =>
              /\ last'.calls = <<>>
              /\ last'.outcome = "raise" <=> ~inst[last'.i].collection_exists
        /\ StepOf("get_chunk_by_id") /\ ~inst[last'.i].collection_exists =>
              last'.calls = <<>> /\ last'.result = None /\ last'.outcome = "ok"
        /\ StepOf("insert_embeddings") /\ last'.arg /= <<>> =>
              /\ Len(last'.calls) = 1
              /\ last'.calls[1].request = "upsert"
              /\ last'.calls[1].ok <=>
                     /\ last'.env
                     /\ engine.exists
                     /\ \A n \in 1..Len(last'.arg) :
                            Len(last'.arg[n].vector) = engine.dim
              /\ last'.outcome = "raise" <=> ~last'.calls[1].ok
        /\ StepOf("search") =>
              /\ Len(last'.calls) = 1
              /\ last'.calls[1].request = "query_points"
              /\ last'.calls[1].ok <=>
                     /\ last'.env
                     /\ engine.exists
                     /\ Len(last'.arg.query_vector) = engine.dim
              /\ last'.outcome = "raise" <=> ~last'.calls[1].ok
        /\ ~engine.exists /\ engine'.exists => last'.op = "construct" ]_vars

\* an object whose flag is false (it deleted the collection, another object
\* created it again) inserts, and the engine stores the batch
C5_Witness ==
    /\ last.op = "insert_embeddings"
    /\ last.arg /= <<>>
    /\ ~inst[last.i].collection_exists
    /\ last.calls /= <<>>
    /\ last.outcome = "ok"

\* C6: delete_collection is idempotent. Called while the readiness flag says
\* the collection is absent it sends nothing, changes nothing and returns;
\* called while the engine does not hold the collection it leaves the engine
\* as it is and returns whenever the engine answers; after every successful
\* call the flag is false (and the collection gone if a request was sent); a
\* call that follows a successful call on the same object changes nothing.
C6_DeleteIdempotent ==
    [][ StepOf("delete_collection") =>
          /\ ~inst[last'.i].collection_exists =>
                /\ last'.outcome = "ok"
                /\ last'.calls = <<>>
                /\ engine' = engine
                /\ inst' = inst
          /\ ~engine.exists =>
                /\ engine' = engine
                /\ last'.env => last'.outcome = "ok"
          /\ last'.outcome = "ok" =>
                /\ ~inst'[last'.i].collection_exists
                /\ last'.calls /= <<>> => ~engine'.exists
          /\ (last.op = "delete_collection" /\ last.i = last'.i /\ last.outcome = "ok") =>
                engine' = engine /\ inst' = inst /\ last'.outcome = "ok" ]_vars

\* delete_collection returned without a request: the collection was absent
C6_Witness ==
    /\ last.op = "delete_collection"
    /\ last.outcome = "ok"
    /\ last.calls = <<>>
    /\ ~engine.exists

\* C7: get_chunk_by_id never raises and never changes the store. It returns
\* None without a request when the flag is false, None when no point has the
\* derived key, None when the engine call fails, and a record otherwise.
C7_GetChunkNeverRaises ==
    [][ StepOf("get_chunk_by_id") =>
          LET flag == inst[last'.i].collection_exists
              found == _string_id_to_int(last'.arg) \in DOMAIN engine.points
          IN  /\ last'.outcome = "ok"
              /\ engine' = engine
              /\ inst' = inst
              /\ ~flag => last'.result = None /\ last'.calls = <<>>
              /\ flag => Len(last'.calls) = 1 /\ last'.calls[1].request = "retrieve"
              /\ flag /\ ~found => last'.result = None
              /\ flag /\ ~last'.env => last'.result = None /\ ~last'.calls[1].ok
              /\ flag /\ found /\ last'.env => last'.result /= None ]_vars

\* the engine call failed while the point was there: None was returned
C7_Witness ==
    /\ last.op = "get_chunk_by_id"
    /\ inst[last.i].collection_exists
    /\ last.env = FALSE
    /\ _string_id_to_int(last.arg) \in DOMAIN engine.points
    /\ last.outcome = "ok"
    /\ last.result = None

\* C8: upsert is last-write-wins. After a successful insert_embeddings the
\* collection holds one point for each derived key of the batch besides the
\* points it held, each of those keys holds the vector and payload of the
\* last chunk of the batch with that key, every other point is as before;
\* when all keys were present the point count is unchanged; and an insert
\* the engine answers raises only for a missing collection or a vector of
\* the wrong length, never for an id that is already present.
C8_UpsertLastWriteWins ==
    [][ StepOf("insert_embeddings") /\ last'.arg /= <<>> =>
          LET batch == last'.arg
              keys == {KeyAt(batch, n) : n \in 1..Len(batch)}
          IN  /\ last'.outcome = "ok" =>
                    /\ DOMAIN engine'.points = DOMAIN engine.points \cup keys
                    /\ \A k \in DOMAIN engine.points \ keys :
                           engine'.points[k] = engine.points[k]
                    /\ \A n \in 1..Len(batch) :
                           LastWithKey(batch, n) =>
                               engine'.points[KeyAt(batch, n)] =
                                   [vector |-> batch[n].vector,
                                    payload |-> PayloadOf(batch[n])]
                    /\ keys \subseteq DOMAIN engine.points =>
                           Cardinality(DOMAIN engine'.points) =
                               Cardinality(DOMAIN engine.points)
              /\ ( /\ last'.env
                   /\ engine.exists
                   /\ \A n \in 1..Len(batch) : Len(batch[n].vector) = engine.dim )
                    => last'.outcome = "ok" ]_vars

\* a batch of two chunks with one id and different content was inserted and
\* the collection holds a single point with the content of the second
C8_Witness ==
    /\ last.op = "insert_embeddings"
    /\ last.outcome = "ok"
    /\ Len(last.arg) = 2
    /\ last.arg[1].id = last.arg[2].id
    /\ last.arg[1].content /= last.arg[2].content
    /\ Cardinality(DOMAIN engine.points) = 1
    /\ engine.points[KeyAt(last.arg, 2)].payload.content = last.arg[2].content

\* C9: collection creation is idempotent. Constructing an object while the
\* engine holds the collection sends no create_collection, leaves the
\* collection and its points as they are, and returns with the flag set
\* whenever the client opens and the engine answers; after a construction
\* or an insert by an object whose flag is set, every other object whose
\* flag is set reads the same record as it under every id.
C9_IdempotentCreation ==
    [][ /\ StepOf("construct") /\ engine.exists =>
              /\ engine' = engine
              /\ \A n \in 1..Len(last'.calls) :
                     last'.calls[n].request /= "create_collection"
              /\ last'.env.clientOk /\ last'.env.listOk =>
                     /\ last'.outcome = "ok"
                     /\ inst'[last'.i].state = "ready"
                     /\ inst'[last'.i].collection_exists
        /\ StepOf("construct") \/ StepOf("insert_embeddings") =>
              \A j \in Instances \ {last'.i} :
                  ( /\ inst'[last'.i].state = "ready" /\ inst'[last'.i].collection_exists
                    /\ inst'[j].state = "ready" /\ inst'[j].collection_exists ) =>
                      \A id \in Ids :
                          get_chunk_by_id(inst'[j], engine', id, TRUE).result =
                          get_chunk_by_id(inst'[last'.i], engine', id, TRUE).result ]_vars

\* a second object was constructed on a collection that already held points
C9_Witness ==
    /\ last.op = "construct"
    /\ last.i = 2
    /\ last.outcome = "ok"
    /\ Ready(1)
    /\ inst[2].collection_exists
    /\ DOMAIN engine.points /= {}
    /\ Len(last.calls) = 1

\* C10: every search result's score is 1 minus the similarity the engine
\* returned for that point; with similarities in [-1, 1] in descending order
\* every score is in [0, 2] and the scores are non-decreasing with rank; the
\* results are the engine's points in the engine's order.
C10_ScoreConversion ==
    (last.op = "search" /\ last.outcome = "ok") =>
        LET points == last.calls[1].points
            results == last.result
        IN  /\ Len(results) = Len(points)
            /\ \A n \in 1..Len(results) :
                   /\ results[n].score = 1 - points[n].score
                   /\ results[n].score >= 0
                   /\ results[n].score <= 2
                   /\ results[n].id = points[n].payload.original_id
                   /\ results[n].content = points[n].payload.content
            /\ \A a, b \in 1..Len(results) :
                   a < b => results[a].score <= results[b].score

\* a search returned two results at different distances, the closest at 0
C10_Witness ==
    /\ last.op = "search"
    /\ last.outcome = "ok"
    /\ Len(last.result) = 2
    /\ last.result[1].score = 0
    /\ last.result[1].score < last.result[2].score

\* C11: the filter parameter of search has no effect. Every search that
\* reaches the engine queries it with no filter, whatever filter_expr is; in
\* every store state, for every query vector, limit and engine answer, search
\* with a filter returns and raises exactly as search without one; and the
\* result of a search that took place is the formatted answer of the engine,
\* unfiltered.
C11_FilterHasNoEffect ==
    /\ \A i \in Instances, q \in QueryVectors, limit \in 1..MaxLimit,
          f \in Filters, engineOk \in BOOLEAN :
           Ready(i) =>
               \A answer \in IF engineOk /\ QueryAccepted(engine, q)
                              THEN QueryAnswers(engine, q, limit) ELSE {<<>>} :
                   search(inst[i], engine, q, limit, f, engineOk, answer) =
                   search(inst[i], engine, q, limit, None, engineOk, answer)
    /\ (last.op = "search" /\ last.outcome = "ok") =>
           /\ last.calls[1].query_filter = None
           /\ last.calls[1].points \in
                  QueryAnswers(engine, last.arg.query_vector, last.arg.limit)
           /\ last.result = FormatResults(last.calls[1].points)

\* a search with the filter Some(1) returned a chunk whose chunk_index is
\* not 1
C11_Witness ==
    /\ last.op = "search"
    /\ last.outcome = "ok"
    /\ last.arg.filter_expr = Some(1)
    /\ \E n \in 1..Len(last.result) : last.result[n].citation.chunk_index /= 1

\* C17: insert_embeddings([]) returns [] without a request to the engine and
\* leaves the collection and every object's readiness flag as they are, in
\* every store state: whether or not the engine is reachable, holds the
\* collection, and whatever the flag says.
C17_EmptyInsertIsNoOp ==
    [][ StepOf("insert_embeddings") /\ last'.arg = <<>> =>
          /\ last'.outcome = "ok"
          /\ last'.result = <<>>
          /\ last'.calls = <<>>
          /\ engine' = engine
          /\ inst' = inst ]_vars

\* insert_embeddings([]) returned on an object whose collection had been
\* deleted, with the engine unreachable
C17_Witness ==
    /\ last.op = "insert_embeddings"
    /\ last.arg = <<>>
    /\ last.outcome = "ok"
    /\ last.env = FALSE
    /\ ~engine.exists
    /\ ~inst[last.i].collection_exists

\* the payload keys every point carries
CoreKeys ==
    {"content", "source_file", "source_type", "page_number", "chunk_index",
     "start_char", "end_char", "embedding_model", "original_id"}

\* an Optional[int] as the payload stores it
ToSentinel(v) == IF v = None THEN -1 ELSE v[1]

\* C18 as stated: every point written by insert_embeddings carries the same
\* ten payload keys (content, source_file, source_type, page_number,
\* chunk_index, start_char, end_char, embedding_model, original_id and
\* metadata). Violated: a chunk whose metadata is None or empty is stored
\* without the metadata key.
C18_FixedShapeTenKeys ==
    \A k \in DOMAIN engine.points :
        DOMAIN engine.points[k].payload = CoreKeys \cup {"metadata"}

\* C18 (amended): every point written by insert_embeddings carries the nine
\* payload keys content, source_file, source_type, page_number, chunk_index,
\* start_char, end_char, embedding_model and original_id, with an absent
\* page_number, start_char or end_char stored as -1 rather than omitted and
\* original_id equal to the chunk's string id (whose derived key is the
\* point's id); the metadata key is carried exactly when the chunk's
\* metadata is non-empty, so the payload has one of two shapes, and search
\* and get_chunk_by_id read a payload without it as having empty metadata.
C18_PayloadShape ==
    /\ \A k \in DOMAIN engine.points :
           LET payload == engine.points[k].payload
           IN  /\ CoreKeys \subseteq DOMAIN payload
               /\ DOMAIN payload \subseteq CoreKeys \cup {"metadata"}
               /\ \A f \in {"page_number", "start_char", "end_char"} :
                      payload[f] \in Int /\ payload[f] >= -1
               /\ _string_id_to_int(payload.original_id) = k
               /\ "metadata" \notin DOMAIN payload =>
                      /\ ChunkRecord([id |-> k, payload |-> payload]).metadata = EmptyDict
                      /\ FormatResult([id |-> k, score |-> 0,
                                       payload |-> payload]).metadata = EmptyDict
    /\ (last.op = "insert_embeddings" /\ last.outcome = "ok") =>
           \A n \in 1..Len(last.arg) :
               LastWithKey(last.arg, n) =>
                   LET c == last.arg[n]
                       payload == engine.points[KeyAt(last.arg, n)].payload
                   IN  /\ payload.original_id = c.id
                       /\ payload.content = c.content
                       /\ payload.source_file = c.source_file
                       /\ payload.source_type = c.source_type
                       /\ payload.chunk_index = c.chunk_index
                       /\ payload.embedding_model = c.embedding_model
                       /\ payload.page_number = ToSentinel(c.page_number)
                       /\ payload.start_char = ToSentinel(c.start_char)
                       /\ payload.end_char = ToSentinel(c.end_char)
                       /\ "metadata" \in DOMAIN payload <=> Truthy(c.metadata)
                       /\ (Truthy(c.metadata) /\ c.metadata.t = "dict") =>
                              payload.metadata = c.metadata

\* one insert stored a chunk without start offset and without metadata (-1,
\* no metadata key) and a chunk with page number, offsets and metadata
C18_Witness ==
    /\ last.op = "insert_embeddings"
    /\ last.outcome = "ok"
    /\ Len(last.arg) = 2
    /\ \E a, b \in DOMAIN engine.points :
           /\ engine.points[a].payload.start_char = -1
           /\ "metadata" \notin DOMAIN engine.points[a].payload
           /\ engine.points[b].payload.page_number = 3
           /\ "metadata" \in DOMAIN engine.points[b].payload

\* the n-th chunk of the batch meets a point or an earlier chunk of the
\* batch that has its derived key and another string id
Collides(e, batch, n) ==
    \/ /\ KeyAt(batch, n) \in DOMAIN e.points
       /\ e.points[KeyAt(batch, n)].payload.original_id /= batch[n].id
    \/ \E m \in 1..n - 1 :
           KeyAt(batch, m) = KeyAt(batch, n) /\ batch[m].id /= batch[n].id

\* C19: a hash collision is silently aliased. When a chunk with id Y is
\* inserted over a point, or after a chunk of the same batch, whose id X is
\* different and derives the same key, the insert raises no error on that
\* account (it returns whenever the engine accepts the request), the key
\* holds a single point with Y's vector and payload, and get_chunk_by_id(X),
\* like get_chunk_by_id(Y), then returns Y's record, with id Y; every record
\* get_chunk_by_id returns has the original_id of the stored point, whether
\* or not that is the id asked for.
C19_CollisionAliased ==
    [][ /\ StepOf("insert_embeddings") =>
              \A n \in 1..Len(last'.arg) :
                  (LastWithKey(last'.arg, n) /\ Collides(engine, last'.arg, n)) =>
                      LET Y == last'.arg[n]
                          key == KeyAt(last'.arg, n)
                      IN  /\ (last'.env /\ UpsertAccepted(engine, PointsOf(last'.arg)))
                                 => last'.outcome = "ok"
                          /\ last'.outcome = "ok" =>
                                 /\ engine'.points[key] =
                                        [vector |-> Y.vector, payload |-> PayloadOf(Y)]
                                 /\ \A X \in Ids, i \in Instances :
                                        ( /\ _string_id_to_int(X) = key
                                          /\ inst'[i].collection_exists ) =>
                                            LET r == get_chunk_by_id(inst'[i], engine',
                                                                     X, TRUE).result
                                            IN  /\ r /= None
                                                /\ r.id = Y.id
                                                /\ r.content = Y.content
        /\ StepOf("get_chunk_by_id") /\ last'.result /= None =>
              last'.result.id =
                  engine.points[_string_id_to_int(last'.arg)].payload.original_id ]_vars

\* "u" and then "v", which derive the same key, were inserted in one batch:
\* a single point is stored and get_chunk_by_id("u") returns the record of
\* "v"
C19_Witness ==
    /\ last.op = "insert_embeddings"
    /\ last.outcome = "ok"
    /\ Len(last.arg) = 2
    /\ last.arg[1].id = "u"
    /\ last.arg[2].id = "v"
    /\ inst[last.i].collection_exists
    /\ Cardinality(DOMAIN engine.points) = 1
    /\ Lookup(last.i, "u") /= None
    /\ Lookup(last.i, "u").id = "v"
    /\ Lookup(last.i, "u").content = "from v"

\* C20: insert_embeddings and search never swallow an engine error. A
\* non-empty insert sends one upsert with all its points and a search sends
\* one query, never a second request; the engine call fails exactly when the
\* engine is unreachable, does not hold the collection, or is given a vector
\* whose length is not the collection's dimension; whenever it fails the
\* operation raises and returns nothing, and the collection is as before:
\* no point of the failed batch is stored (the engine takes or refuses the
\* one request as a whole). Whenever it raises, the engine call failed.
C20_EngineErrorsPropagate ==
    [][ /\ StepOf("insert_embeddings") /\ last'.arg /= <<>> =>
              LET failed == \/ ~last'.env
                            \/ ~engine.exists
                            \/ \E n \in 1..Len(last'.arg) :
                                   Len(last'.arg[n].vector) /= engine.dim
              IN  /\ Len(last'.calls) = 1
                  /\ last'.calls[1].request = "upsert"
                  /\ last'.calls[1].ok <=> ~failed
                  /\ failed <=> last'.outcome = "raise"
                  /\ failed => /\ last'.result = None
                               /\ engine' = engine
                               /\ inst' = inst
                  /\ ~failed => Len(last'.result) = Len(last'.arg)
        /\ StepOf("search") =>
              LET failed == \/ ~last'.env
                            \/ ~engine.exists
                            \/ Len(last'.arg.query_vector) /= engine.dim
              IN  /\ Len(last'.calls) = 1
                  /\ last'.calls[1].request = "query_points"
                  /\ last'.calls[1].ok <=> ~failed
                  /\ failed <=> last'.outcome = "raise"
                  /\ failed => last'.result = None
                  /\ engine' = engine
                  /\ inst' = inst ]_vars

\* two chunks with vectors of length 2 were sent to a reachable engine whose
\* collection has dimension 3: the insert raised and nothing was stored
C20_Witness ==
    /\ last.op = "insert_embeddings"
    /\ Len(last.arg) = 2
    /\ last.env = TRUE
    /\ engine.exists
    /\ engine.dim = 3
    /\ inst[last.i].collection_exists
    /\ last.outcome = "raise"
    /\ DOMAIN engine.points = {}

\* the requests of the given kind among the calls of an operation
Requests(calls, request) == {n \in 1..Len(calls) : calls[n].request = request}

\* C22: collection setup at construction, once the client is open, lists
\* the collections once and issues create_collection (once) if and only if
\* the listing is answered and the named collection is absent from it. A
\* collection that exists is reused: its points and its dimension stay as
\* they are even if the configured embedding_dim differs (the object keeps
\* the configured value); an absent one is created empty with the
\* configured dimension. In both cases the readiness flag is true when
\* construction returns; construction raises exactly when the client does
\* not open, the listing fails or the creation fails, and then the flag is
\* false and the engine is as before.
C22_CollectionSetup ==
    [][ StepOf("construct") =>
          LET env == last'.env
              calls == last'.calls
              self == inst'[last'.i]
              creates == Requests(calls, "create_collection") /= {}
          IN  /\ ~env.clientOk => calls = <<>>
              /\ env.clientOk =>
                     /\ Cardinality(Requests(calls, "get_collections")) = 1
                     /\ calls[1].request = "get_collections"
                     /\ calls[1].ok <=> env.listOk
              /\ Cardinality(Requests(calls, "create_collection")) <= 1
              /\ creates <=> (env.clientOk /\ env.listOk /\ ~engine.exists)
              /\ creates => calls[Len(calls)].ok <=> env.createOk
              /\ last'.outcome = "raise" <=>
                     \/ ~env.clientOk
                     \/ ~env.listOk
                     \/ ~engine.exists /\ ~env.createOk
              /\ last'.outcome = "raise" =>
                     /\ ~self.collection_exists
                     /\ self.state = "failed"
                     /\ engine' = engine
              /\ last'.outcome = "ok" =>
                     /\ self.collection_exists
                     /\ self.state = "ready"
                     /\ self.embedding_dim = last'.arg
                     /\ engine'.exists
                     /\ engine.exists => engine' = engine
                     /\ ~engine.exists =>
                            engine' = [exists |-> TRUE, dim |-> last'.arg,
                                       points |-> <<>>] ]_vars

\* an object configured with dimension 3 was constructed on an existing
\* collection of dimension 2 that holds points: the collection is as it was
C22_Witness ==
    /\ last.op = "construct"
    /\ last.outcome = "ok"
    /\ last.arg = 3
    /\ inst[last.i].embedding_dim = 3
    /\ inst[last.i].collection_exists
    /\ engine.dim = 2
    /\ DOMAIN engine.points /= {}
    /\ Requests(last.calls, "create_collection") = {}

\* a non-empty string that json.loads rejects
Unparsable(m) == m.t = "str" /\ m.s /= "" /\ ~json_loads(m.s).ok

-----------------------------------------------------------------------------
(* Claims about a store object that is the only user of its collection,   *)
(* checked under SingleSpec                                                *)

\* C24: for a store object that is the only user of the engine's named
\* collection, in every state after its successful construction, whatever
\* operations it has performed since (failing ones included), the readiness
\* flag collection_exists is true if and only if the engine holds the
\* collection.
C24_FlagTracksCollection ==
    Ready(1) => (inst[1].collection_exists <=> engine.exists)

\* after a delete_collection the object's insert_embeddings has just been
\* refused by the reachable engine: the flag is false and the collection
\* is gone
C24_Witness ==
    /\ Ready(1)
    /\ last.op = "insert_embeddings"
    /\ last.arg /= <<>>
    /\ last.env
    /\ last.outcome = "raise"
    /\ ~inst[1].collection_exists
    /\ ~engine.exists
    /\ inst[2] = NoInstance

-----------------------------------------------------------------------------
(* Claims about the key derivation, checked under HashSpec *)

\* the carry into byte i - 1 of a + b (8 big-endian bytes)
RECURSIVE Carry(_, _, _)
Carry(a, b, i) == IF i > 8 THEN 0 ELSE (a[i] + b[i] + Carry(a, b, i + 1)) \div 256

\* a + b modulo 2^64
AddBytes(a, b) == [i \in 1..8 |-> (a[i] + b[i] + Carry(a, b, i + 1)) % 256]

\* a < b as unsigned 64-bit numbers
LessBytes(a, b) ==
    \E i \in 1..8 : a[i] < b[i] /\ \A j \in 1..i - 1 : a[j] = b[j]

\* 0, 2^63 - 1 and 2 * (2^63 - 1): the multiples of the modulus below 2^64
ModulusMultiples ==
    { <<0, 0, 0, 0, 0, 0, 0, 0>>, Modulus,
      <<255, 255, 255, 255, 255, 255, 255, 254>> }

\* C12: _string_id_to_int returns a value in [0, 2^63 - 2] that is the first
\* 8 digest bytes, read big-endian unsigned, reduced modulo 2^63 - 1 (the
\* digest is the result plus a multiple of 2^63 - 1); the result depends on
\* the digest alone: two calls in a row on the same digest, by whichever
\* objects and in whichever store state, return the same value.
C12_KeyDerivation ==
    [][ StepOf("_string_id_to_int") =>
          /\ LessBytes(last'.result, Modulus)
          /\ \E m \in ModulusMultiples :
                 /\ AddBytes(last'.result, m) = last'.arg
                 /\ Carry(last'.result, m, 1) = 0
          /\ (last.op = "_string_id_to_int" /\ last.arg = last'.arg) =>
                 last'.result = last.result ]_vars

\* the digest 2^64 - 1 was reduced to 1 by the object constructed second
C12_Witness ==
    /\ last.op = "_string_id_to_int"
    /\ last.i = 2
    /\ last.arg = <<255, 255, 255, 255, 255, 255, 255, 255>>
    /\ last.result = <<0, 0, 0, 0, 0, 0, 0, 1>>

-----------------------------------------------------------------------------
(* Claims about the keys insert_embeddings returns, checked under Spec *)

-----------------------------------------------------------------------------
(* Claims about the generator, checked under GenSpec *)

\* the priority of a candidate: A, then B's ladder, then C
Priority(candidate) ==
    CASE candidate = "A" -> 1
      [] candidate = "B.local" -> 2
      [] candidate = "B.download" -> 3
      [] candidate = "B.direct" -> 4
      [] candidate = "C" -> 5

\* the backend a candidate activates
BackendOf(candidate) ==
    CASE candidate = "A" -> "TextEmbedding"
      [] candidate \in {"B.local", "B.download", "B.direct"} -> "SentenceTransformer"
      [] candidate = "C" -> "EmbeddingWrapper"

\* no embedding library can be used in this environment
NoLibrary ==
    /\ ~gen.env.FASTEMBED_AVAILABLE
    /\ ~gen.env.SENTENCE_TRANSFORMERS_AVAILABLE
    /\ ~gen.env.TRANSFORMERS_AVAILABLE

\* C2: the constructor never returns with the model handle or embedding_dim
\* unset: when it has returned, both are set and the last candidate tried
\* succeeded; when every candidate tried has failed, or no embedding library
\* is available, it has not returned normally.
C2_NeverHalfInitialized ==
    /\ gen.pc = "ready" =>
          /\ gen.model /= None
          /\ gen.embedding_dim /= None
          /\ gen.tried /= <<>>
          /\ gen.tried[Len(gen.tried)].ok
    /\ (\A n \in 1..Len(gen.tried) : ~gen.tried[n].ok) => gen.pc /= "ready"
    /\ NoLibrary => gen.pc /= "ready"
    /\ glast.outcome = "raise" /\ glast.op = "construct" <=> gen.pc = "raised"

\* A failed twice, B's download and direct load failed, C failed: the
\* constructor raised
C2_Witness ==
    /\ gen.pc = "raised"
    /\ Len(gen.tried) = 5
    /\ gen.tried[1].candidate = "A"
    /\ gen.tried[5].candidate = "C"
    /\ \A n \in 1..5 : ~gen.tried[n].ok

\* C3: the candidates are attempted in priority order, A (when selected),
\* then B's ladder (the local directory, else the download, and the direct
\* load only after the download), then C; every attempt but the last has
\* failed; a success ends initialization with that backend active and
\* embedding_dim the width of the probe output.
C3_PriorityOrder ==
    LET tried == gen.tried
        cands == {tried[n].candidate : n \in 1..Len(tried)}
    IN  /\ \A a, b \in 1..Len(tried) :
               a < b =>
                   /\ Priority(tried[a].candidate) <= Priority(tried[b].candidate)
                   /\ Priority(tried[a].candidate) = Priority(tried[b].candidate)
                          => tried[a].candidate = "A"
                   /\ ~tried[a].ok
        /\ "A" \in cands => gen.env.FASTEMBED_AVAILABLE /\ tried[1].candidate = "A"
        /\ ~("B.local" \in cands /\ "B.download" \in cands)
        /\ "B.direct" \in cands => "B.download" \in cands
        /\ gen.pc = "ready" <=>
               tried /= <<>> /\ tried[Len(tried)].ok /\ gen.pc /= "st_probe"
        /\ gen.pc = "ready" =>
               /\ gen.model.kind = BackendOf(tried[Len(tried)].candidate)
               /\ gen.embedding_dim = Some(Len(EmbedTexts(gen.model, <<"test">>)[1]))
               /\ gen.embedding_dim = Some(WidthOf(gen.model.name))

\* A failed twice, the download failed, the direct load failed on its probe,
\* and C became the active backend
C3_Witness ==
    /\ gen.pc = "ready"
    /\ Len(gen.tried) = 5
    /\ gen.tried[1].candidate = "A"
    /\ gen.tried[2].candidate = "A"
    /\ gen.tried[3].candidate = "B.download"
    /\ gen.tried[4].candidate = "B.direct"
    /\ gen.tried[5].candidate = "C"
    /\ gen.model.kind = "EmbeddingWrapper"

\* C4: a successful generate_embeddings(chunks) returns exactly len(chunks)
\* EmbeddedChunks, the i-th wrapping the i-th chunk, every vector as long as
\* get_embedding_dimension(); generate_embeddings([]) returns [] (without a
\* backend call).
C4_OneEmbeddingPerChunk ==
    (glast.op = "generate_embeddings" /\ glast.outcome = "ok") =>
        /\ Len(glast.result) = Len(glast.arg)
        /\ \A n \in 1..Len(glast.arg) :
               /\ glast.result[n].chunk = glast.arg[n]
               /\ Len(glast.result[n].embedding) = get_embedding_dimension(gen)[1]
               /\ glast.result[n].embedding_model = gen.model_name
        /\ glast.arg = <<>> => glast.result = <<>> /\ glast.calls = <<>>

\* two chunks were embedded by the base-width model
C4_Witness ==
    /\ glast.op = "generate_embeddings"
    /\ glast.outcome = "ok"
    /\ Len(glast.arg) = 2
    /\ Len(glast.result) = 2
    /\ glast.result[1].embedding /= glast.result[2].embedding
    /\ Len(glast.result[2].embedding) = BaseWidth

\* C13: for every list of chunk batches and every positive batch_size,
\* batch_generate_embeddings delegates to generate_embeddings only sub-batches
\* of between 1 and batch_size chunks; when it returns, the chunks delegated
\* are the chunks of the input in order, the output has as many batches as
\* the input, and the i-th output batch holds one EmbeddedChunk per chunk of
\* the i-th input batch in the same order (an empty batch yields an empty
\* batch); it raises exactly when a delegated call raises, and that call is
\* the last one made.
C13_BatchGrouping ==
    glast.op = "batch_generate_embeddings" =>
        LET batches == glast.arg.chunks_batches
            calls == glast.calls
        IN  /\ \A n \in 1..Len(calls) :
                   /\ calls[n].op = "generate_embeddings"
                   /\ Len(calls[n].arg) >= 1
                   /\ Len(calls[n].arg) <= glast.arg.batch_size
                   /\ calls[n].outcome = "raise" => n = Len(calls)
            /\ glast.outcome = "raise" <=>
                   calls /= <<>> /\ calls[Len(calls)].outcome = "raise"
            /\ glast.outcome = "ok" =>
                   /\ Concat([n \in 1..Len(calls) |-> calls[n].arg]) = Concat(batches)
                   /\ Len(glast.result) = Len(batches)
                   /\ \A b \in 1..Len(batches) :
                          /\ Len(glast.result[b]) = Len(batches[b])
                          /\ \A n \in 1..Len(batches[b]) :
                                 /\ glast.result[b][n].chunk = batches[b][n]
                                 /\ glast.result[b][n].embedding =
                                        EmbedTexts(gen.model, <<batches[b][n].content>>)[1]

\* an empty batch and a batch of three chunks were embedded with batch_size
\* 2: two delegated calls, of two chunks and of one
C13_Witness ==
    /\ glast.op = "batch_generate_embeddings"
    /\ glast.outcome = "ok"
    /\ glast.arg.batch_size = 2
    /\ Len(glast.arg.chunks_batches) = 2
    /\ glast.arg.chunks_batches[1] = <<>>
    /\ glast.result[1] = <<>>
    /\ Len(glast.result[2]) = 3
    /\ Len(glast.calls) = 2
    /\ Len(glast.calls[1].arg) = 2
    /\ Len(glast.calls[2].arg) = 1

\* C14: generate_embeddings propagates a failure of the backend call and
\* returns no partial output. For a non-empty chunk list it makes exactly one
\* backend call, on the texts of all chunks, and never a second one; when
\* that call raises, the operation raises and yields nothing; when it
\* returns, the operation yields one EmbeddedChunk for every input chunk.
\* No outcome is a list for a strict subset of the chunks.
C14_NoPartialOutput ==
    glast.op = "generate_embeddings" =>
        /\ glast.arg /= <<>> =>
               /\ Len(glast.calls) = 1
               /\ glast.calls[1].texts =
                      [n \in 1..Len(glast.arg) |-> glast.arg[n].content]
               /\ glast.calls[1].ok <=> glast.outcome = "ok"
        /\ glast.outcome = "raise" => glast.result = None
        /\ glast.outcome = "ok" =>
               /\ Len(glast.result) = Len(glast.arg)
               /\ \A n \in 1..Len(glast.arg) : glast.result[n].chunk = glast.arg[n]

\* the backend call on the texts of two chunks raised: the operation raised
\* after that one call
C14_Witness ==
    /\ glast.op = "generate_embeddings"
    /\ Len(glast.arg) = 2
    /\ glast.outcome = "raise"
    /\ Len(glast.calls) = 1
    /\ Len(glast.calls[1].texts) = 2
    /\ ~glast.calls[1].ok

\* C15: the active backend and its dimension are frozen after construction.
\* Every step taken once the constructor has returned is one of
\* generate_embeddings, generate_query_embedding, batch_generate_embeddings
\* and get_embedding_dimension, and, whether it succeeds or fails, it leaves
\* embedding_dim, the model handle, model_name and the backend selector as
\* they are and does not re-enter initialization (no further attempt is
\* made); get_embedding_dimension returns embedding_dim, which is the width
\* probed during initialization.
C15_BackendFrozen ==
    [][ gen.pc = "ready" =>
          /\ glast'.op \in {"generate_embeddings", "generate_query_embedding",
                            "batch_generate_embeddings", "get_embedding_dimension"}
          /\ gen'.embedding_dim = gen.embedding_dim
          /\ gen'.model = gen.model
          /\ gen'.model_name = gen.model_name
          /\ gen'.use_fastembed = gen.use_fastembed
          /\ gen'.pc = "ready"
          /\ gen'.tried = gen.tried
          /\ gen'.attempt = gen.attempt
          /\ glast'.op = "get_embedding_dimension" =>
                 /\ glast'.outcome = "ok"
                 /\ glast'.result = gen.embedding_dim
                 /\ glast'.result = Some(ProbeDim(gen.model)) ]_vars

\* a batch_generate_embeddings call failed on its second delegated call and
\* the object is as initialized, with the base-width model
C15_Witness ==
    /\ gen.pc = "ready"
    /\ glast.op = "batch_generate_embeddings"
    /\ glast.outcome = "raise"
    /\ Len(glast.calls) = 2
    /\ gen.embedding_dim = Some(BaseWidth)
    /\ gen.model /= None

\* C16: generate_query_embedding uses the same active backend as
\* generate_embeddings. In every state after construction, for every query
\* text and every non-empty chunk list, both operations call the same method
\* (embed when the selector is set, encode otherwise) of the same model
\* handle, the active one, which has that method; so the query vector of a
\* text is the vector the corpus operation gives a chunk with that text.
C16_SameBackend ==
    gen.pc = "ready" =>
        /\ \A text \in Texts, backendOk \in BOOLEAN :
               LET q == generate_query_embedding(gen, text, backendOk)
               IN  /\ Len(q.calls) = 1
                   /\ q.calls[1].model = gen.model
                   /\ q.calls[1].method = MethodOf(gen)
                   /\ Supports(q.calls[1].model, q.calls[1].method)
                   /\ \A chunks \in ChunkLists \ {<<>>} :
                          LET c == GenerateEmbeddingsOf(gen, chunks, backendOk)
                          IN  /\ c.calls[1].model = q.calls[1].model
                              /\ c.calls[1].method = q.calls[1].method
                              /\ \A n \in 1..Len(chunks) :
                                     (backendOk /\ chunks[n].content = text) =>
                                         c.result[n].embedding = q.result
        /\ glast.op \in {"generate_embeddings", "generate_query_embedding"} =>
               \A n \in 1..Len(glast.calls) :
                   /\ glast.calls[n].model = gen.model
                   /\ glast.calls[n].method = MethodOf(gen)

\* a query was embedded by the transformers wrapper, reached after fastembed
\* had been selected and had failed
C16_Witness ==
    /\ gen.pc = "ready"
    /\ glast.op = "generate_query_embedding"
    /\ glast.outcome = "ok"
    /\ glast.calls[1].model.kind = "EmbeddingWrapper"
    /\ glast.calls[1].method = "encode"
    /\ gen.tried[1].candidate = "A"

\* how often a candidate has been attempted
Attempts(candidate) ==
    Cardinality({n \in 1..Len(gen.tried) : gen.tried[n].candidate = candidate})

\* at most max_retries attempts of A, one of each rung of B and of C
BoundedAttempts ==
    /\ Attempts("A") <= max_retries
    /\ \A c \in {"B.local", "B.download", "B.direct", "C"} : Attempts(c) <= 1
    /\ Len(gen.tried) <= max_retries + 3
    /\ gen.attempt < max_retries

\* the last operation made no backend call twice: at most one call by
\* generate_embeddings and generate_query_embedding, one per delegated
\* sub-batch and none after a failed one by batch_generate_embeddings
NoOperationRetries ==
    /\ glast.op \in {"generate_embeddings", "generate_query_embedding"} =>
           Len(glast.calls) <= 1
    /\ glast.op = "batch_generate_embeddings" =>
           \A n \in 1..Len(glast.calls) :
               /\ Len(glast.calls[n].calls) = 1
               /\ n < Len(glast.calls) => glast.calls[n].outcome = "ok"

\* the steps _initialize_model can still take from where it is: the passes
\* left in the fastembed loop, the fallback guard, the rungs below
StepsLeft(g) ==
    CASE g.pc = "fastembed"    -> 5 + (max_retries - g.attempt)
      [] g.pc = "fallback"     -> 5
      [] g.pc = "st_download"  -> 4
      [] g.pc = "st_local"     -> 3
      [] g.pc = "st_direct"    -> 3
      [] g.pc = "st_probe"     -> 2
      [] g.pc = "transformers" -> 1
      [] OTHER                 -> 0

\* the constructor has been called and has neither returned nor raised
Initializing == gen.pc \notin {"new", "ready", "raised"}

\* C21: initialization terminates with a bounded number of attempts.
\* Backend A is attempted at most max_retries = 2 times, each rung of B's
\* ladder and backend C at most once, so at most five attempts are made;
\* every run of the constructor ends in the ready state or in a raised
\* failure: while it runs its next step can always be taken, each step
\* brings it nearer to the end (at most seven steps), and once it has ended
\* it stays ended; and no operation of the generator retries:
\* generate_embeddings and generate_query_embedding make at most one backend
\* call, batch_generate_embeddings one per delegated sub-batch and none
\* after a failed one.
C21_BoundedInitialization ==
    /\ []BoundedAttempts
    /\ []NoOperationRetries
    /\ [](Initializing => ENABLED (\E loaded, probed \in BOOLEAN : InitStep(loaded, probed)))
    /\ [][ /\ Initializing =>
                 /\ StepsLeft(gen') < StepsLeft(gen)
                 /\ Len(gen'.tried) <= Len(gen.tried) + 1
                 /\ glast'.op = "construct"
          /\ gen.pc \in {"ready", "raised"} =>
                 gen'.pc = gen.pc /\ gen'.tried = gen.tried ]_vars

\* the constructor raised after five attempts, two of them of backend A
C21_Witness ==
    /\ gen.pc = "raised"
    /\ Attempts("A") = 2
    /\ Attempts("B.download") = 1
    /\ Attempts("B.direct") = 1
    /\ Attempts("C") = 1
    /\ Len(gen.tried) = 5
    /\ glast.outcome = "raise"

====
